---- MODULE Spec2Model ----
(***************************************************************************)
(* text-dedup: text_dedup/encoder.py.                                      *)
(*                                                                         *)
(* A run of task_dedup: the arguments are validated, every input file is   *)
(* streamed in batches, each batch is fingerprinted (sha1 of the           *)
(* normalized line) and appended to the shard file of the fingerprint's    *)
(* prefix, then every shard is merged (first text per fingerprint) into    *)
(* the output or into size-bounded output blocks.                          *)
(*                                                                         *)
(* Strings are sequences of one-character strings.  The character U+AD81   *)
(* (a Hangul syllable, three bytes in UTF-8) is written HANGUL.  A text    *)
(* file is the sequence of its lines, without the line terminators.        *)
(***************************************************************************)
EXTENDS Bags, FiniteSets, Integers, Sequences, TLC

(***************************************************************************)
(* Bounds of the model.                                                    *)
(***************************************************************************)
MaxLines == 3
MaxFiles == 2
MaxProcs == 2
MaxChunk == 1
MaxPrefix == 2
MaxCodeLen == 4

(***************************************************************************)
(* Characters and strings.                                                 *)
(***************************************************************************)
HANGUL == "U+AD81"

Whitespace == {" "}

Digits == {"0", "1", "2", "3", "4", "5", "6", "7", "8", "9"}

\* The default character class of Normalizer, restricted to the characters
\* of the model: 0-9, a-z, A-Z and the Hangul blocks.
AllowedChars == Digits \cup {"a", "b", "c", "g", "k", "m", "o", "s", "u", "K", HANGUL}

\* len(ch.encode("utf-8"))
Utf8Len(ch) == IF ch = HANGUL THEN 3 ELSE 1

RECURSIVE ByteLen(_)
ByteLen(s) == IF s = <<>> THEN 0 ELSE Utf8Len(Head(s)) + ByteLen(Tail(s))

\* the first index at or after i that holds no whitespace
RECURSIVE LStripFrom(_, _)
LStripFrom(s, i) ==
  IF i <= Len(s) /\ s[i] \in Whitespace THEN LStripFrom(s, i + 1) ELSE i

\* the last index at or before i that holds no whitespace
RECURSIVE RStripFrom(_, _)
RStripFrom(s, i) ==
  IF i >= 1 /\ s[i] \in Whitespace THEN RStripFrom(s, i - 1) ELSE i

\* str.strip()
Strip(s) == SubSeq(s, LStripFrom(s, 1), RStripFrom(s, Len(s)))

\* s[:n]
Take(s, n) == SubSeq(s, 1, IF n < Len(s) THEN n ELSE Len(s))

\* s.find(ch) + 1: the index of the first occurrence of ch in s, 0 when there
\* is none
Find(s, ch) ==
  IF \A i \in 1..Len(s) : s[i] # ch THEN 0
  ELSE CHOOSE i \in 1..Len(s) : s[i] = ch /\ \A j \in 1..(i - 1) : s[j] # ch

\* s.split(ch)[0]
SplitHead(s, ch) ==
  LET at == Find(s, ch)
  IN IF at = 0 THEN s ELSE SubSeq(s, 1, at - 1)

\* s.split(ch, 1)
Split1(s, ch) ==
  LET at == Find(s, ch)
  IN IF at = 0 THEN <<s>> ELSE <<SubSeq(s, 1, at - 1), SubSeq(s, at + 1, Len(s))>>

\* str.lower()
LowerChar(ch) == IF ch = "K" THEN "k" ELSE ch

Lower(s) == [i \in 1..Len(s) |-> LowerChar(s[i])]

HexVal(ch) ==
  CASE ch = "0" -> 0 [] ch = "1" -> 1 [] ch = "2" -> 2 [] ch = "3" -> 3
    [] ch = "4" -> 4 [] ch = "5" -> 5 [] ch = "6" -> 6 [] ch = "7" -> 7
    [] ch = "8" -> 8 [] ch = "9" -> 9 [] ch = "a" -> 10 [] ch = "b" -> 11
    [] ch = "c" -> 12 [] ch = "d" -> 13 [] ch = "e" -> 14 [] ch = "f" -> 15

\* s < t for two hex strings (Python's str comparison)
StrLess(s, t) ==
  LET n == IF Len(s) < Len(t) THEN Len(s) ELSE Len(t)
  IN IF \A i \in 1..n : s[i] = t[i] THEN Len(s) < Len(t)
     ELSE LET d == CHOOSE i \in 1..n : s[i] # t[i] /\ \A j \in 1..(i - 1) : s[j] = t[j]
          IN HexVal(s[d]) < HexVal(t[d])

(***************************************************************************)
(* Normalizer and Encoder.                                                 *)
(***************************************************************************)
\* Normalizer.__call__: drop every character outside the class
Normalizer(line) == SelectSeq(line, LAMBDA ch : ch \in AllowedChars)

\* hashlib.sha1(norm.encode("utf-8")).hexdigest(), on the normalized forms
\* of the model's lines
sha1(norm) ==
  CASE norm = <<>> ->
         <<"d","a","3","9","a","3","e","e","5","e","6","b","4","b","0","d","3","2","5","5",
           "b","f","e","f","9","5","6","0","1","8","9","0","a","f","d","8","0","7","0","9">>
    [] norm = <<"a">> ->
         <<"8","6","f","7","e","4","3","7","f","a","a","5","a","7","f","c","e","1","5","d",
           "1","d","d","c","b","9","e","a","e","a","e","a","3","7","7","6","6","7","b","8">>
    [] norm = <<"b">> ->
         <<"e","9","d","7","1","f","5","e","e","7","c","9","2","d","6","d","c","9","e","9",
           "2","f","f","d","a","d","1","7","b","8","b","d","4","9","4","1","8","f","9","8">>
    [] norm = <<HANGUL>> ->
         <<"e","9","6","0","e","4","2","4","a","5","5","b","4","f","5","a","c","e","f","8",
           "3","2","c","0","a","5","6","7","5","4","9","9","a","9","1","c","8","1","2","8">>

\* Encoder.encode
Encode(line) == <<line, sha1(Normalizer(line))>>

\* the workers of the pool finish in any order and the results are
\* collected as they finish
EncodeBatch_unordered(lines) == [i \in 1..Len(lines) |-> Encode(lines[Len(lines) + 1 - i])]

\* Encoder.encode_batch: Pool.imap yields the results in the order of lines
EncodeBatch(lines) == [i \in 1..Len(lines) |-> Encode(lines[i])]

(***************************************************************************)
(* Shard router and writer.                                                *)
(***************************************************************************)
shard_root == <<"r">>

ShardSuffix == <<".", "s", "h", "a", "r", "d">>

\* [code[b: b + 2] for b in range(0, n_chars, 2)] joined by "/"
RECURSIVE SubPath(_)
SubPath(code) ==
  IF Len(code) <= 2 THEN code
  ELSE SubSeq(code, 1, 2) \o <<"/">> \o SubPath(SubSeq(code, 3, Len(code)))

\* range(0, n_chars - 1, 2): an odd last character is left out
RECURSIVE SubPath_even(_)
SubPath_even(code) ==
  IF Len(code) <= 1 THEN <<>>
  ELSE IF Len(code) <= 3 THEN SubSeq(code, 1, 2)
  ELSE SubSeq(code, 1, 2) \o <<"/">> \o SubPath_even(SubSeq(code, 3, Len(code)))

get_shard_path_even(root, code) == root \o <<"/">> \o SubPath_even(code) \o ShardSuffix

\* get_shard_path
get_shard_path(root, code) == root \o <<"/">> \o SubPath(code) \o ShardSuffix

\* f"{code} {line}\n"
FormatRecord(code, line) == code \o <<" ">> \o line

\* the keys of a dict filled from seq[i..], in insertion order, after acc
RECURSIVE KeysFrom(_, _, _)
KeysFrom(seq, i, acc) ==
  IF i > Len(seq) THEN acc
  ELSE IF \E j \in 1..Len(acc) : acc[j] = seq[i] THEN KeysFrom(seq, i + 1, acc)
  ELSE KeysFrom(seq, i + 1, Append(acc, seq[i]))

KeysInOrder(seq) == KeysFrom(seq, 1, <<>>)

\* append lines to the file at path, creating it when missing
AppendFile(fs, path, lines) ==
  IF path \in DOMAIN fs THEN [fs EXCEPT ![path] = @ \o lines]
  ELSE (path :> lines) @@ fs

\* the loop of save_shards over shards.items()
RECURSIVE WriteGroups(_, _, _, _)
WriteGroups(fs, keys, encoded_lines, k) ==
  IF k > Len(keys) THEN fs
  ELSE LET prefix  == keys[k][1]
           code    == keys[k][2]
           members == SelectSeq(encoded_lines, LAMBDA e : e[2] = code)
           records == [i \in 1..Len(members) |-> FormatRecord(code, members[i][1])]
       IN WriteGroups(AppendFile(fs, get_shard_path(shard_root, prefix), records),
                      keys, encoded_lines, k + 1)

\* save_shards, past its assertion
SaveShards(fs, encoded_lines, prefix_length) ==
  LET keyOf == [i \in 1..Len(encoded_lines) |->
                  <<Take(encoded_lines[i][2], prefix_length), encoded_lines[i][2]>>]
  IN WriteGroups(fs, KeysInOrder(keyOf), encoded_lines, 1)

(***************************************************************************)
(* The merge of one shard.                                                 *)
(***************************************************************************)
\* line.strip().split(" ", 1)
ParseRecord(raw) == Split1(Strip(raw), " ")

\* lines = [line.strip().split(" ", 1) for line in f]
LoadShard(file) == [i \in 1..Len(file) |-> ParseRecord(file[i])]

\* the keys of unique, in insertion order
UniqueCodes(lines) == KeysInOrder([i \in 1..Len(lines) |-> lines[i][1]])

\* unique[code]
TextsOf(lines, code) ==
  LET members == SelectSeq(lines, LAMBDA l : l[1] = code)
  IN [i \in 1..Len(members) |-> members[i][2]]

\* texts[-1]: the last text of every fingerprint
DedupTexts_last(lines) ==
  LET codes == UniqueCodes(lines)
  IN [k \in 1..Len(codes) |-> TextsOf(lines, codes[k])[Len(TextsOf(lines, codes[k]))]]

\* one text for the whole shard
DedupTexts_per_shard(lines) == IF Len(lines) = 0 THEN <<>> ELSE <<lines[1][2]>>

\* texts = [texts[0] for texts in unique.values()]
DedupTexts(lines) ==
  LET codes == UniqueCodes(lines)
  IN [k \in 1..Len(codes) |-> TextsOf(lines, codes[k])[1]]

RECURSIVE SumByteLen(_)
SumByteLen(texts) ==
  IF texts = <<>> THEN 0 ELSE ByteLen(Head(texts)) + SumByteLen(Tail(texts))

\* sum(len(text)) + len(texts): characters instead of bytes
TextsSize_chars(texts) ==
  LET RECURSIVE SumLen(_)
      SumLen(t) == IF t = <<>> THEN 0 ELSE Len(Head(t)) + SumLen(Tail(t))
  IN SumLen(texts) + Len(texts)

\* texts_size = sum(len(text.encode("utf-8")) for text in texts) + len(texts)
TextsSize(texts) == SumByteLen(texts) + Len(texts)

(***************************************************************************)
(* Python values: None, a string, an integer, a raised ValueError.         *)
(***************************************************************************)
None == [t |-> "None"]

Str(s) == [t |-> "str", v |-> s]

PyInt(n) == [t |-> "int", v |-> n]

ValueError == [t |-> "ValueError"]

\* the block test without the running size
StartsNewBlock_alone(max_block_size, block_size, texts_size) ==
  max_block_size.t # "None" /\ texts_size > max_block_size.v

\* (max_block_size is not None) and ((block_size + texts_size) > max_block_size)
StartsNewBlock(max_block_size, block_size, texts_size) ==
  max_block_size.t # "None" /\ (block_size + texts_size) > max_block_size.v

\* the records of the codes[k..], every text of a fingerprint kept
RECURSIVE RecordsOf(_, _, _)
RecordsOf(lines, codes, k) ==
  IF k > Len(codes) THEN <<>>
  ELSE LET texts == TextsOf(lines, codes[k])
       IN [i \in 1..Len(texts) |-> FormatRecord(codes[k], texts[i])]
            \o RecordsOf(lines, codes, k + 1)

\* one record per fingerprint, holding its first text
SortedShard_compact(lines) ==
  LET codes == SortSeq(UniqueCodes(lines), StrLess)
  IN [k \in 1..Len(codes) |-> FormatRecord(codes[k], TextsOf(lines, codes[k])[1])]

\* for code, texts in sorted(unique.items()): for text in texts: write
SortedShard(lines) == RecordsOf(lines, SortSeq(UniqueCodes(lines), StrLess), 1)

(***************************************************************************)
(* humanized_to_number.                                                    *)
(***************************************************************************)
IsDigits(s) == s # <<>> /\ \A i \in 1..Len(s) : s[i] \in Digits

RECURSIVE DecVal(_)
DecVal(s) == IF s = <<>> THEN 0 ELSE 10 * DecVal(SubSeq(s, 1, Len(s) - 1)) + HexVal(s[Len(s)])

RECURSIVE Pow10(_)
Pow10(n) == IF n = 0 THEN 1 ELSE 10 * Pow10(n - 1)

\* float(s) for s made of digits and at most one point: <<numerator,
\* denominator>>, or <<>> when float raises ValueError
ParseFloat(s) ==
  LET dot  == Find(s, ".")
      ipart == IF dot = 0 THEN s ELSE SubSeq(s, 1, dot - 1)
      fpart == IF dot = 0 THEN <<>> ELSE SubSeq(s, dot + 1, Len(s))
  IN IF /\ ipart \o fpart # <<>>
        /\ \A i \in 1..Len(ipart) : ipart[i] \in Digits
        /\ \A i \in 1..Len(fpart) : fpart[i] \in Digits
     THEN <<DecVal(ipart \o fpart), Pow10(Len(fpart))>>
     ELSE <<>>

\* int(float(s.split(unit)[0]) * scale)
Scaled(s, unit, scale) ==
  LET f == ParseFloat(SplitHead(s, unit))
  IN IF f = <<>> THEN ValueError ELSE PyInt((f[1] * scale) \div f[2])

humanized_to_number(max_block_size) ==
  IF max_block_size.t = "None" THEN None
  ELSE IF IsDigits(max_block_size.v) THEN PyInt(DecVal(max_block_size.v))
  ELSE LET s == Lower(max_block_size.v)
       IN IF Find(s, "k") # 0 THEN Scaled(s, "k", 1024)
          ELSE IF Find(s, "m") # 0 THEN Scaled(s, "m", 1024 * 1024)
          ELSE IF Find(s, "g") # 0 THEN Scaled(s, "g", 1024 * 1024 * 1024)
          ELSE ValueError

(***************************************************************************)
(* The reported metric.                                                    *)
(***************************************************************************)
RECURSIVE Gcd(_, _)
Gcd(a, b) == IF b = 0 THEN a ELSE Gcd(b, a % b)

\* a quotient of two integers, in lowest terms
Ratio(num, den) == <<num \div Gcd(num, den), den \div Gcd(num, den)>>

\* the share of the records that were removed
Percentage_removed(n_dedup, n_dup) == Ratio(100 * (n_dup - n_dedup), n_dup)

\* percentage = 100 * n_deduplicated / n_duplicated
Percentage(n_dedup, n_dup) == Ratio(100 * n_dedup, n_dup)

\* str(n) for n >= 0
RECURSIVE DecStr(_)
DecStr(n) ==
  LET digit == CHOOSE d \in Digits : HexVal(d) = n % 10
  IN IF n < 10 THEN <<digit>> ELSE Append(DecStr(n \div 10), digit)

output == <<"o">>

\* f"{output}.{block_index}"
BlockPath(block_index) == output \o <<".">> \o DecStr(block_index)

\* the number of path components of a shard below the root
Depth(path) == Cardinality({i \in (Len(shard_root) + 1)..Len(path) : path[i] = "/"})

\* glob(f"{shard_root}/{wildcard}.shard") with depth stars
GlobShards(fs, depth) == {path \in DOMAIN fs : Depth(path) = depth}

(***************************************************************************)
(* The run.                                                                *)
(***************************************************************************)
VARIABLES
  pc,               \* the position of the run
  err,              \* the exception that ended the run, "" when none
  n_inputs,         \* the number of input paths
  chunksize, n_processes, hash_func_type, prefix_length, sort, keep,
  max_block_size,   \* the size string, then the value parsed from it
  files,            \* the input files opened so far, as the lines read from each
  batch_lines,      \* encode_a_file
  shards,           \* the files under shard_root: path -> lines
  outputs,          \* the output files: path -> lines
  io,               \* the kinds of file access made so far
  todo,             \* task_merge: the globbed shards not merged yet
  n_duplicated, n_deduplicated, block_size, block_index, output_path,
  percentage,       \* 100 * n_deduplicated / n_duplicated, in lowest terms
  merged,           \* one entry for every iteration of the merge loop
  code_a, code_b, path_a, path_b   \* two fingerprints and their shard paths

vars == <<pc, err, n_inputs, chunksize, n_processes, hash_func_type, prefix_length,
          sort, keep, max_block_size, files, batch_lines, shards, outputs, io, todo,
          n_duplicated, n_deduplicated, block_size, block_index, output_path,
          percentage, merged, code_a, code_b, path_a, path_b>>

args == <<n_inputs, chunksize, n_processes, hash_func_type, prefix_length, sort, keep>>

mergeVars == <<todo, n_duplicated, n_deduplicated, block_size, block_index, output_path,
               percentage, merged>>

routeVars == <<code_a, code_b, path_a, path_b>>

\* the lines an input file is made of
Lines == { <<"a">>, <<"b">>, <<" ", "a", "!">>, <<HANGUL>>, <<>> }

\* the values of --max_block_size
SizeStrings == { None, Str(<<"4">>), Str(<<".", "0", "0", "4", "K", "b">>),
                 Str(<<"b", "o", "g", "u", "s">>) }

HashFuncTypes == {"sha1", "md5"}

NoFiles == <<>>

Init ==
  /\ pc = "task_dedup"
  /\ err = ""
  /\ n_inputs \in 1..MaxFiles
  /\ chunksize \in 1..MaxChunk
  /\ n_processes \in 1..MaxProcs
  /\ hash_func_type \in HashFuncTypes
  /\ prefix_length \in 1..MaxPrefix
  /\ sort \in BOOLEAN
  /\ keep \in BOOLEAN
  /\ max_block_size \in SizeStrings
  /\ files = <<>>
  /\ batch_lines = <<>>
  /\ shards = NoFiles
  /\ outputs = NoFiles
  /\ io = {}
  /\ todo = {}
  /\ n_duplicated = 0
  /\ n_deduplicated = 0
  /\ block_size = 0
  /\ block_index = 0
  /\ output_path = <<>>
  /\ percentage = <<>>
  /\ merged = <<>>
  /\ code_a = <<>>
  /\ code_b = <<>>
  /\ path_a = <<>>
  /\ path_b = <<>>

Raise(exception) == pc' = "raised" /\ err' = exception

\* task_dedup up to its call of task_encode
TaskDedupStart ==
  /\ pc = "task_dedup"
  /\ IF sort /\ ~keep
     THEN Raise("ValueError") /\ UNCHANGED max_block_size
     ELSE IF humanized_to_number(max_block_size).t = "ValueError"
     THEN Raise("ValueError") /\ UNCHANGED max_block_size
     ELSE /\ max_block_size' = humanized_to_number(max_block_size)
          /\ pc' = "task_encode"
          /\ err' = err
  /\ UNCHANGED <<args, files, batch_lines, shards, outputs, io, mergeVars, routeVars>>

\* task_encode up to its loop: the paths are globbed, the Encoder is built
TaskEncodeStart ==
  /\ pc = "task_encode"
  /\ IF hash_func_type = "sha1"
     THEN pc' = "encode_next" /\ err' = err
     ELSE Raise("ValueError")
  /\ UNCHANGED <<args, max_block_size, files, batch_lines, shards, outputs, io,
                 mergeVars, routeVars>>

\* encode_a_file up to its loop: the file is counted and opened
EncodeOpen ==
  /\ pc = "encode_next"
  /\ Len(files) < n_inputs
  /\ files' = Append(files, <<>>)
  /\ batch_lines' = <<>>
  /\ io' = io \cup {"open_input"}
  /\ pc' = "encode_file"
  /\ UNCHANGED <<err, args, max_block_size, shards, outputs, mergeVars, routeVars>>

\* encode_batch and save_shards on a batch, then what follows
EncodeAndSave(batch, next) ==
  IF prefix_length >= 2
  THEN /\ shards' = SaveShards(shards, EncodeBatch(batch), prefix_length)
       /\ io' = io \cup {"write_shard"}
       /\ batch_lines' = <<>>
       /\ pc' = next
       /\ err' = err
  ELSE /\ Raise("AssertionError")
       /\ batch_lines' = batch
       /\ UNCHANGED <<shards, io>>

RECURSIVE TotalLen(_)
TotalLen(fs) == IF fs = <<>> THEN 0 ELSE Len(Head(fs)) + TotalLen(Tail(fs))

\* one iteration of the loop of encode_a_file over the lines of the file
EncodeLine(raw) ==
  /\ pc = "encode_file"
  /\ TotalLen(files) < MaxLines
  /\ files' = [files EXCEPT ![Len(files)] = Append(@, raw)]
  /\ LET line == Strip(raw)
     IN IF line = <<>>
        THEN UNCHANGED <<batch_lines, shards, io, pc, err>>
        ELSE IF Len(batch_lines) + 1 >= n_processes * chunksize
        THEN EncodeAndSave(Append(batch_lines, line), "encode_file")
        ELSE /\ batch_lines' = Append(batch_lines, line)
             /\ UNCHANGED <<shards, io, pc, err>>
  /\ UNCHANGED <<args, max_block_size, outputs, mergeVars, routeVars>>

\* the end of the file: the last batch, then the next file or task_merge
EncodeEOF ==
  /\ pc = "encode_file"
  /\ LET next == IF Len(files) < n_inputs THEN "encode_next" ELSE "task_merge"
     IN IF batch_lines # <<>>
        THEN EncodeAndSave(batch_lines, next)
        ELSE pc' = next /\ UNCHANGED <<batch_lines, shards, io, err>>
  /\ UNCHANGED <<args, max_block_size, files, outputs, mergeVars, routeVars>>

\* task_merge up to its loop
TaskMergeStart ==
  /\ pc = "task_merge"
  /\ todo' = GlobShards(shards, (prefix_length + 1) \div 2)
  /\ io' = io \cup {"makedirs_output"}
  /\ n_duplicated' = 0
  /\ n_deduplicated' = 0
  /\ block_size' = 0
  /\ block_index' = 0
  /\ output_path' = IF max_block_size.t = "None" THEN output ELSE BlockPath(0)
  /\ pc' = "merge"
  /\ UNCHANGED <<err, args, max_block_size, files, batch_lines, shards, outputs,
                 percentage, merged, routeVars>>

\* one iteration of the loop of task_merge; glob gives the shards in any order
MergeShard(shard) ==
  /\ pc = "merge"
  /\ shard \in todo
  /\ LET lines      == LoadShard(shards[shard])
         texts      == DedupTexts(lines)
         texts_size == TextsSize(texts)
         new_block  == StartsNewBlock(max_block_size, block_size, texts_size)
         path       == IF new_block THEN BlockPath(block_index + 1) ELSE output_path
     IN /\ n_duplicated' = n_duplicated + Len(lines)
        /\ n_deduplicated' = n_deduplicated + Len(texts)
        /\ block_size' = IF new_block THEN texts_size ELSE block_size + texts_size
        /\ block_index' = IF new_block THEN block_index + 1 ELSE block_index
        /\ output_path' = path
        /\ outputs' = AppendFile(outputs, path, texts)
        /\ shards' = IF sort THEN [shards EXCEPT ![shard] = SortedShard(lines)] ELSE shards
        /\ merged' = Append(merged, [shard |-> shard, output_path |-> path,
                                     texts |-> texts])
  /\ todo' = todo \ {shard}
  /\ io' = io \cup {"read_shard", "write_output"} \cup (IF sort THEN {"write_shard"} ELSE {})
  /\ UNCHANGED <<pc, err, args, max_block_size, files, batch_lines, percentage, routeVars>>

\* the end of task_merge: the metric
MergeReport ==
  /\ pc = "merge"
  /\ todo = {}
  /\ IF n_duplicated = 0
     THEN Raise("ZeroDivisionError") /\ UNCHANGED percentage
     ELSE /\ percentage' = Percentage(n_deduplicated, n_duplicated)
          /\ pc' = "cleanup"
          /\ err' = err
  /\ UNCHANGED <<args, max_block_size, files, batch_lines, shards, outputs, io, todo,
                 n_duplicated, n_deduplicated, block_size, block_index, output_path,
                 merged, routeVars>>

\* the end of task_dedup: rm -r shard_root unless keep
Cleanup ==
  /\ pc = "cleanup"
  /\ shards' = IF keep THEN shards ELSE NoFiles
  /\ io' = IF keep THEN io ELSE io \cup {"rm_shards"}
  /\ pc' = "done"
  /\ UNCHANGED <<err, args, max_block_size, files, batch_lines, outputs, mergeVars,
                 routeVars>>

Next ==
  \/ TaskDedupStart
  \/ TaskEncodeStart
  \/ EncodeOpen
  \/ \E raw \in Lines : EncodeLine(raw)
  \/ EncodeEOF
  \/ TaskMergeStart
  \/ \E shard \in todo : MergeShard(shard)
  \/ MergeReport
  \/ Cleanup

Spec == Init /\ [][Next]_vars

(***************************************************************************)
(* The shard router alone: two fingerprints of one length are routed with  *)
(* one prefix length.                                                      *)
(***************************************************************************)
HexSample == {"0", "a", "f"}

Codes == [1..MaxCodeLen -> HexSample]

InitRoute ==
  /\ pc = "route"
  /\ err = ""
  /\ n_inputs = 1
  /\ chunksize = 1
  /\ n_processes = 1
  /\ hash_func_type = "sha1"
  /\ prefix_length \in 2..MaxCodeLen
  /\ sort = FALSE
  /\ keep = FALSE
  /\ max_block_size = None
  /\ files = <<>>
  /\ batch_lines = <<>>
  /\ shards = NoFiles
  /\ outputs = NoFiles
  /\ io = {}
  /\ todo = {}
  /\ n_duplicated = 0
  /\ n_deduplicated = 0
  /\ block_size = 0
  /\ block_index = 0
  /\ output_path = <<>>
  /\ percentage = <<>>
  /\ merged = <<>>
  /\ code_a \in Codes
  /\ code_b \in Codes
  /\ path_a = <<>>
  /\ path_b = <<>>

\* save_shards routes a record: get_shard_path(shard_root, code[:prefix_length])
Route ==
  /\ pc = "route"
  /\ path_a' = get_shard_path(shard_root, Take(code_a, prefix_length))
  /\ path_b' = get_shard_path(shard_root, Take(code_b, prefix_length))
  /\ pc' = "routed"
  /\ UNCHANGED <<err, args, max_block_size, files, batch_lines, shards, outputs, io,
                 mergeVars, code_a, code_b>>

NextRoute == Route

SpecRoute == InitRoute /\ [][NextRoute]_vars

(***************************************************************************)
(* Properties.                                                             *)
(***************************************************************************)
\* the lines of the input files, in the order they are read
RECURSIVE Flatten(_)
Flatten(fs) == IF fs = <<>> THEN <<>> ELSE Head(fs) \o Flatten(Tail(fs))

\* the non-blank lines, trimmed, in the order they are read
InputLines ==
  LET raw == Flatten(files)
  IN SelectSeq([i \in 1..Len(raw) |-> Strip(raw[i])], LAMBDA l : l # <<>>)

Fingerprint(line) == sha1(Normalizer(line))

Occurrences(seq, x) == Cardinality({i \in 1..Len(seq) : seq[i] = x})

Range(seq) == {seq[i] : i \in 1..Len(seq)}

RECURSIVE OccurrencesIn(_, _, _)
OccurrencesIn(fs, paths, x) ==
  IF paths = {} THEN 0
  ELSE LET path == CHOOSE q \in paths : TRUE
       IN Occurrences(fs[path], x) + OccurrencesIn(fs, paths \ {path}, x)

\* how many times the line x stands in the output files
InOutput(x) == OccurrencesIn(outputs, DOMAIN outputs, x)

OutputSet == UNION {Range(outputs[path]) : path \in DOMAIN outputs}

\* the loop of task_merge has run to its end
MergeFinished ==
  \/ pc = "merge" /\ todo = {}
  \/ pc \in {"cleanup", "done"}
  \/ pc = "raised" /\ err = "ZeroDivisionError"

\* the index of the first record of recs that carries code
FirstRecord(recs, code) ==
  CHOOSE i \in 1..Len(recs) : recs[i][1] = code /\ \A j \in 1..(i - 1) : recs[j][1] # code

\* the lines that a step appends to the output file at path
Appended(path) ==
  LET old == IF path \in DOMAIN outputs THEN outputs[path] ELSE <<>>
  IN SubSeq(outputs'[path], Len(old) + 1, Len(outputs'[path]))

\* C1: the merge of a shard appends to the output exactly one line for every
\* distinct fingerprint of the shard file, the text of the first record that
\* carries the fingerprint, and leaves the rest of the output as it was.
C1_FirstSeenWins ==
  [][\A shard \in todo :
       (pc = "merge" /\ shard \notin todo') =>
         LET recs  == LoadShard(shards[shard])
             codes == {recs[i][1] : i \in 1..Len(recs)}
             app   == Appended(output_path')
         IN /\ Len(app) = Cardinality(codes)
            /\ \A code \in codes :
                 Occurrences(app, recs[FirstRecord(recs, code)][2]) = 1
            /\ \A path \in DOMAIN outputs :
                 SubSeq(outputs'[path], 1, Len(outputs[path])) = outputs[path]
            /\ \A path \in DOMAIN outputs' : path # output_path' => path \in DOMAIN outputs
                                               /\ outputs'[path] = outputs[path]]_vars

\* a shard with two records of one fingerprint was merged and the first of
\* them, "a!", is the one in the output, not the smaller "a"
C1_Witness ==
  /\ pc = "done"
  /\ Flatten(files) = << <<" ", "a", "!">>, <<"a">> >>
  /\ n_duplicated = 2
  /\ outputs = (output :> << <<"a", "!">> >>)

\* the size of an output file: the bytes of its lines and one separator each
RECURSIVE BlockBytes(_)
BlockBytes(lines) ==
  IF lines = <<>> THEN 0
  ELSE LET RECURSIVE Bytes(_)
           Bytes(t) == IF t = <<>> THEN 0
                       ELSE (IF Head(t) = HANGUL THEN 3 ELSE 1) + Bytes(Tail(t))
       IN Bytes(Head(lines)) + 1 + BlockBytes(Tail(lines))

\* the contributions placed in the block at path, in order
RECURSIVE Contributions(_, _)
Contributions(path, k) ==
  IF k > Len(merged) THEN <<>>
  ELSE (IF merged[k].output_path = path THEN <<merged[k].texts>> ELSE <<>>)
         \o Contributions(path, k + 1)

\* C2: with a budget B every output block is at most B bytes, or holds one
\* single shard's contribution which alone exceeds B; a block is the
\* contributions placed in it, whole and in order, and nothing else.
C2_BlocksWithinBudget ==
  max_block_size.t = "int" =>
    /\ \A k \in 1..Len(merged) : merged[k].output_path \in DOMAIN outputs
    /\ \A path \in DOMAIN outputs :
         /\ outputs[path] = Flatten(Contributions(path, 1))
         /\ \/ BlockBytes(outputs[path]) <= max_block_size.v
            \/ /\ Len(Contributions(path, 1)) = 1
               /\ BlockBytes(Contributions(path, 1)[1]) > max_block_size.v

\* a first block within the budget is followed by a block that holds one
\* shard of six bytes, over the budget of four
C2_Witness ==
  /\ max_block_size.t = "int"
  /\ pc = "done"
  /\ BlockPath(0) \in DOMAIN outputs
  /\ BlockPath(1) \in DOMAIN outputs
  /\ BlockBytes(outputs[BlockPath(0)]) <= max_block_size.v
  /\ BlockBytes(outputs[BlockPath(1)]) > max_block_size.v

\* no two of the lines carry one fingerprint
NoSharedFingerprint(lines) ==
  \A i, j \in 1..Len(lines) : Fingerprint(lines[i]) = Fingerprint(lines[j]) => i = j

\* C3 as stated: when no line of the corpus is repeated, the output holds
\* every input line exactly once and nothing else.
C3_Original ==
  (MergeFinished /\ \A x \in Range(Flatten(files)) : Occurrences(Flatten(files), x) = 1) =>
    \A x \in Range(Flatten(files)) \cup OutputSet :
      InOutput(x) = Occurrences(Flatten(files), x)

\* C3 amended: when no two non-blank lines of the corpus carry one
\* fingerprint, the output holds every non-blank line, trimmed, exactly once
\* and nothing else.
C3_DistinctFingerprintsPreserved ==
  MergeFinished =>
    LET input == InputLines
    IN NoSharedFingerprint(input) =>
         \A x \in Range(input) \cup OutputSet : InOutput(x) = Occurrences(input, x)

\* two lines of different fingerprints went through one shard, one of them
\* trimmed on the way, and both are in the output
C3_Witness ==
  /\ pc = "done"
  /\ NoSharedFingerprint(InputLines)
  /\ Len(InputLines) = 3
  /\ Len(merged) = 2
  /\ <<" ", "a", "!">> \in Range(Flatten(files))
  /\ InOutput(<<"a", "!">>) = 1
  /\ InOutput(<<"b">>) = 1
  /\ InOutput(<<HANGUL>>) = 1

\* C4 as stated: a configuration error is raised before any file is opened,
\* read, created or written.
C4_ConfigErrorsBeforeIO ==
  (pc = "raised" /\ err \in {"ValueError", "AssertionError"}) => io = {}

\* C5 as stated: the merge never divides by zero.
C5_NoDivisionByZero == ~(pc = "raised" /\ err = "ZeroDivisionError")

C7_CountsAndMetric ==
  /\ MergeFinished =>
       LET input == InputLines
       IN /\ n_duplicated = Len(input)
          /\ n_deduplicated = Cardinality({Fingerprint(l) : l \in Range(input)})
  /\ pc \in {"cleanup", "done"} =>
       /\ Len(percentage) = 2
       /\ percentage[1] * n_duplicated = 100 * n_deduplicated * percentage[2]

\* three records seen, two kept, 66.67% reported, one input line blank or not
C7_Witness ==
  /\ pc = "done"
  /\ n_duplicated = 3
  /\ n_deduplicated = 2
  /\ percentage = <<200, 3>>

\* C8: two fingerprints get one shard path exactly when their prefixes of
\* length prefix_length are equal.
C8_SamePathIffSamePrefix ==
  pc = "routed" =>
    ((path_a = path_b) <=> (Take(code_a, prefix_length) = Take(code_b, prefix_length)))

\* two prefixes of odd length that differ in their last character only
C8_Witness ==
  /\ pc = "routed"
  /\ prefix_length = 3
  /\ Take(code_a, 2) = Take(code_b, 2)
  /\ code_a[3] # code_b[3]
  /\ path_a # path_b

\* C9 as stated: with a budget, the blocks that receive lines are output.0
\* up to output.block_index, none skipped, the first shard in output.0.
C9_BlocksNumberedFromZero ==
  (max_block_size.t = "int" /\ merged # <<>>) =>
    /\ merged[1].output_path = BlockPath(0)
    /\ {merged[k].output_path : k \in 1..Len(merged)}
         = {BlockPath(n) : n \in 0..block_index}

\* the texts of the records of fingerprint code in the shard files
ShardTexts(code) ==
  LET path == get_shard_path(shard_root, Take(code, prefix_length))
  IN IF path \in DOMAIN shards
     THEN LET held == SelectSeq(shards[path], LAMBDA rec : ParseRecord(rec)[1] = code)
          IN [i \in 1..Len(held) |-> ParseRecord(held[i])[2]]
     ELSE <<>>

\* C10: the records of one fingerprint stand in the shard file in the order
\* of the input, within a batch and across batches and files, and the line
\* in the output for a fingerprint is its earliest occurrence in the input.
C10_EarliestOccurrenceKept ==
  LET input   == InputLines
      written == SubSeq(input, 1, Len(input) - Len(batch_lines))
  IN /\ (pc # "done" \/ keep) =>
          \A l \in Range(input) :
            ShardTexts(Fingerprint(l))
              = SelectSeq(written, LAMBDA w : Fingerprint(w) = Fingerprint(l))
     /\ MergeFinished =>
          OutputSet = {input[i] : i \in {k \in 1..Len(input) :
                         \A j \in 1..(k - 1) : Fingerprint(input[j]) # Fingerprint(input[k])}}

\* "a!" and "a" share a batch of two in the first file, "a" comes again in the
\* second file, and "a!" is the line in the output
C10_Witness ==
  /\ pc = "done"
  /\ n_processes * chunksize = 2
  /\ files = << << <<" ", "a", "!">>, <<"a">> >>, << <<"a">> >> >>
  /\ OutputSet = { <<"a", "!">> }

====
